---- MODULE Spec2Model ----
(***************************************************************************)
(* Model of update_status.py: one run of main() that loads the generator   *)
(* registry, fetches the UMM messages, resolves the time period active at  *)
(* `now` for every generation unit, merges the resolved pairs per GU code, *)
(* and writes one GeoJSON feature per registry entry.                      *)
(*                                                                         *)
(* Text is a sequence of one-character strings.  MW figures are integers   *)
(* in hundredths of a MW, so that rounding to one decimal is a real        *)
(* conversion.  A Python value that may have several types is a record     *)
(* with a tag field t.  A Python exception that leaves a function is the   *)
(* outcome "raise" of the operator that models the function.               *)
(***************************************************************************)
EXTENDS Integers, Sequences, FiniteSets, TLC

VARIABLES
    pc,             \* position of the run in main()
    error,          \* the exception that ended the run, "none" while it runs
    docs_dir,       \* whether the directory docs/ exists
    generators,     \* main: generators, a dict in insertion order
    payload_items,  \* payload["items"] as fetched: its shape and its length
    items_left,     \* items of the payload the loop has not reached yet
    gus_left,       \* generation units of the current message not reached yet
    good_items,     \* items reached so far that had a list-valued generationUnits
    now,            \* main: now
    state,          \* main: state, GU code -> (avail, unavail)
    resolved,       \* history: GU code -> the pairs resolved for it so far
    features,       \* main: features
    out_file,       \* contents of docs/status.geojson
    write_opens,    \* times the output file was opened for writing
    fetch_attempts, \* times the HTTP GET was issued
    csv,            \* the registry file read by load_generators
    gu_obj,         \* the generation unit handed to parse_time_period_for_now
    period          \* what parse_time_period_for_now returned for gu_obj

vars == <<pc, error, docs_dir, generators, payload_items, items_left, gus_left,
          good_items, now, state, resolved, features, out_file, write_opens,
          fetch_attempts, csv, gu_obj, period>>

----------------------------------------------------------------------------
(* Bounds of the model.                                                    *)

MaxRows == 2
MaxItems == 2
MaxUnits == 2
MaxPeriods == 2

----------------------------------------------------------------------------
(* Text.                                                                   *)

Digits == {"0", "1", "2", "3", "4", "5", "6", "7", "8", "9"}

MinOf(S) == CHOOSE x \in S : \A y \in S : x <= y

MaxOf(S) == CHOOSE x \in S : \A y \in S : y <= x

\* Optional[str] and JSON values that may or may not be strings.
Str(s) == [t |-> "str", s |-> s]

None == [t |-> "none", s |-> <<>>]

NotStr == [t |-> "other", s |-> <<>>]

\* str.strip()
Strip(s) ==
    LET keep == {i \in 1..Len(s) : s[i] # " "}
    IN  IF keep = {} THEN <<>> ELSE SubSeq(s, MinOf(keep), MaxOf(keep))

\* str.upper(), one character
UpperChar(c) ==
    CASE c = "g" -> "G"
      [] c = "u" -> "U"
      [] c = "w" -> "W"
      [] OTHER -> c

Upper(s) == [i \in 1..Len(s) |-> UpperChar(s[i])]

\* GU_RE.search(s): the leftmost match of GU_\d+, digits taken greedily.
GU_RE_search(s) ==
    LET starts == {i \in 1..(Len(s) - 3) :
                      /\ s[i] = "G" /\ s[i + 1] = "U" /\ s[i + 2] = "_"
                      /\ s[i + 3] \in Digits}
    IN  IF starts = {} THEN None
        ELSE LET i == MinOf(starts)
                 j == MaxOf({k \in (i + 3)..Len(s) :
                                \A m \in (i + 3)..k : s[m] \in Digits})
             IN  Str(SubSeq(s, i, j))

extract_gu(text) ==
    IF text.t # "str" THEN None ELSE GU_RE_search(Upper(text.s))

----------------------------------------------------------------------------
(* Registry loader.                                                        *)

RECURSIVE DecimalValue(_)
DecimalValue(s) ==
    IF s = <<>> THEN 0
    ELSE 10 * DecimalValue(SubSeq(s, 1, Len(s) - 1))
         + (CHOOSE d \in 0..9 : ToString(d) = s[Len(s)])

\* float(x) for a CSV field: None raises TypeError, text that is not an
\* optionally signed run of digits (surrounding blanks allowed) raises ValueError.
ParseFloat(x) ==
    IF x.t # "str" THEN [ok |-> FALSE, v |-> 0]
    ELSE LET s == Strip(x.s)
             neg == s # <<>> /\ s[1] = "-"
             body == IF neg THEN Tail(s) ELSE s
         IN  IF body = <<>> \/ \E i \in 1..Len(body) : body[i] \notin Digits
             THEN [ok |-> FALSE, v |-> 0]
             ELSE [ok |-> TRUE,
                   v |-> IF neg THEN 0 - DecimalValue(body) ELSE DecimalValue(body)]

\* (x or "")
OrEmpty(x) == IF x.t = "str" THEN x.s ELSE <<>>

Generator(infra, gu, row) ==
    [infrastructure |-> infra,
     gu_code |-> gu,
     lat |-> ParseFloat(row.lat).v,
     lon |-> ParseFloat(row.lon).v,
     fuel |-> Strip(OrEmpty(row.fuel))]

Keys(gens) == {gens[i].gu_code : i \in 1..Len(gens)}

\* A plausible slip: a later row with a known code is dropped (first-wins).
DictSetFirstWins(gens, gu, rec) ==
    IF gu \in Keys(gens) THEN gens ELSE Append(gens, rec)

\* gens[gu] = rec on a dict: a known key keeps its place and takes the new
\* value, a new key goes last.
DictSet(gens, gu, rec) ==
    IF gu \in Keys(gens)
    THEN [i \in 1..Len(gens) |-> IF gens[i].gu_code = gu THEN rec ELSE gens[i]]
    ELSE Append(gens, rec)

RECURSIVE LoadRows(_, _)
LoadRows(rows, gens) ==
    IF rows = <<>> THEN [raised |-> FALSE, gens |-> gens]
    ELSE LET row == Head(rows)
             infra == Strip(OrEmpty(row.infrastructure))
             gu == extract_gu(Str(infra))
         IN  IF infra = <<>> THEN LoadRows(Tail(rows), gens)
             ELSE IF gu.t = "none" THEN LoadRows(Tail(rows), gens)
             ELSE IF ~ParseFloat(row.lat).ok \/ ~ParseFloat(row.lon).ok
                  THEN [raised |-> TRUE, gens |-> <<>>]
                  ELSE LoadRows(Tail(rows),
                                DictSet(gens, gu.s, Generator(infra, gu.s, row)))

\* load_generators(path): open() raises when the file is missing.
load_generators(file) ==
    IF ~file.exists THEN [raised |-> TRUE, gens |-> <<>>]
    ELSE LoadRows(file.rows, <<>>)

----------------------------------------------------------------------------
(* Time-window resolver.                                                   *)

\* Values of eventStart / eventStop.  An ISO-8601 text carries a local clock
\* reading (in hours) and, when it is timezone-aware, a UTC offset.
TsNull == [t |-> "null", local |-> 0, aware |-> FALSE, offset |-> 0]

TsEmpty == [t |-> "empty", local |-> 0, aware |-> FALSE, offset |-> 0]

TsBad == [t |-> "bad", local |-> 0, aware |-> FALSE, offset |-> 0]

Naive(h) == [t |-> "iso", local |-> h, aware |-> FALSE, offset |-> 0]

Aware(h, off) == [t |-> "iso", local |-> h, aware |-> TRUE, offset |-> off]

\* iso_to_dt: None for a falsy value; isoparse raises ValueError on text it
\* cannot parse; a naive reading is taken as UTC, an aware one is converted.
iso_to_dt(s) ==
    IF s.t \in {"null", "empty"} THEN [kind |-> "none", utc |-> 0]
    ELSE IF s.t = "bad" THEN [kind |-> "raise", utc |-> 0]
    ELSE [kind |-> "dt", utc |-> IF s.aware THEN s.local - s.offset ELSE s.local]

\* Values of availableCapacity / unavailableCapacity.
Number(v) == [t |-> "num", v |-> v]

CapNull == [t |-> "null", v |-> 0]

CapText == [t |-> "str", v |-> 0]

\* num(x) of parse_time_period_for_now
num(x) == IF x.t = "num" THEN [some |-> TRUE, v |-> x.v] ELSE [some |-> FALSE, v |-> 0]

NoPeriod == [kind |-> "none", avail |-> 0, unavail |-> 0]

Raised == [kind |-> "raise", avail |-> 0, unavail |-> 0]

Pair(a, u) == [kind |-> "pair", avail |-> a, unavail |-> u]

\* start <= now <= stop
InWindow(start, t, stop) == start <= t /\ t <= stop

\* The for loop of parse_time_period_for_now over tps, from its head.
RECURSIVE ScanPeriods(_, _)
ScanPeriods(tps, t) ==
    IF tps = <<>> THEN NoPeriod
    ELSE LET tp == Head(tps)
             start == iso_to_dt(tp.eventStart)
             stop == iso_to_dt(tp.eventStop)
             available == num(tp.availableCapacity)
             unavailable == num(tp.unavailableCapacity)
         IN  IF tp.t # "dict" THEN ScanPeriods(Tail(tps), t)
             ELSE IF start.kind = "raise" \/ stop.kind = "raise" THEN Raised
             ELSE IF start.kind = "none" \/ stop.kind = "none"
                  THEN ScanPeriods(Tail(tps), t)
             ELSE IF ~InWindow(start.utc, t, stop.utc) THEN ScanPeriods(Tail(tps), t)
             ELSE IF ~available.some \/ ~unavailable.some
                  THEN ScanPeriods(Tail(tps), t)
             ELSE Pair(available.v, unavailable.v)

parse_time_period_for_now(gu, t) ==
    IF gu.timePeriods.t # "list" THEN NoPeriod ELSE ScanPeriods(gu.timePeriods.v, t)

----------------------------------------------------------------------------
(* Status engine and snapshot.                                             *)

\* A plausible slip: the two tests in the other order.
status_offline_first(avail, unavail) ==
    IF avail = 0 THEN "offline" ELSE IF unavail = 0 THEN "online" ELSE "partial"

status_from_availability(avail, unavail) ==
    IF unavail = 0 THEN "online" ELSE IF avail = 0 THEN "offline" ELSE "partial"

\* round(x, 1) on hundredths of a MW: to the nearest tenth, a tie to the even
\* tenth (the sample capacities hold no tie).
Round1(x) ==
    LET r == x % 10
        low == x - r
    IN  IF r < 5 THEN low
        ELSE IF r > 5 THEN low + 10
        ELSE IF (low \div 10) % 2 = 0 THEN low ELSE low + 10

----------------------------------------------------------------------------
(* Sample inputs.                                                          *)

RECURSIVE SeqsUpTo(_, _)
SeqsUpTo(S, n) ==
    IF n = 0 THEN {<<>>}
    ELSE LET shorter == SeqsUpTo(S, n - 1)
         IN  shorter \cup {Append(q, x) : q \in {r \in shorter : Len(r) = n - 1}, x \in S}

\* Registry rows as csv.DictReader yields them: a missing field is None.
Row(infra, lat, lon, fuel) ==
    [infrastructure |-> infra, lat |-> lat, lon |-> lon, fuel |-> fuel]

Rows ==
    {Row(Str(<<" ", "g", "u", "_", "1", " ", "w">>), Str(<<"5", "3">>),
         Str(<<"-", "6">>), Str(<<" ", "w", " ">>)),
     Row(Str(<<"G", "U", "_", "1">>), Str(<<" ", "5", "4", " ">>),
         Str(<<"-", "7">>), None),
     Row(Str(<<"w", "G", "U", "_", "2", "G", "U", "_", "1">>), Str(<<"5", "2">>),
         Str(<<"-", "8">>), Str(<<"w">>)),
     Row(Str(<<" ", " ">>), Str(<<"w">>), Str(<<"-", "6">>), None),
     Row(Str(<<"G", "U", "_", "w", "1">>), None, None, Str(<<"w">>)),
     Row(None, Str(<<"5", "w">>), Str(<<"-", "6">>), Str(<<"w">>)),
     Row(Str(<<"G", "U", "_", "1">>), Str(<<"5", "w">>), Str(<<"-", "6">>), None),
     Row(Str(<<"g", "u", "_", "2">>), Str(<<"5", "2">>), None, None)}

MissingFile == [exists |-> FALSE, rows |-> <<>>]

CsvFiles ==
    {MissingFile} \cup {[exists |-> TRUE, rows |-> r] : r \in SeqsUpTo(Rows, MaxRows)}

\* The evaluation instants, in hours.
Nows == {5, 6}

Tp(start, stop, avail, unavail) ==
    [t |-> "dict", eventStart |-> start, eventStop |-> stop,
     availableCapacity |-> avail, unavailableCapacity |-> unavail]

TpNotDict ==
    [t |-> "other", eventStart |-> TsNull, eventStop |-> TsNull,
     availableCapacity |-> CapNull, unavailableCapacity |-> CapNull]

\* Periods a run's generation units carry: one with an unparsable stop, and
\* three sound ones: [5, 5] with (0, 0), [5, 6] with (30.04, 50), [4, 7] with (0, 50).
RunPeriods ==
    {Tp(Naive(4), TsBad, Number(2000), Number(8000)),
     Tp(Naive(5), Aware(6, 1), Number(0), Number(0)),
     Tp(Aware(6, 1), Naive(6), Number(3004), Number(5000)),
     Tp(Naive(4), Naive(7), Number(0), Number(5000))}

\* The periods the resolver is checked on: those, and the other shapes.
TimePeriods ==
    RunPeriods \cup
    {TpNotDict,
     Tp(TsNull, Naive(7), Number(2000), Number(8000)),
     Tp(Naive(4), TsEmpty, Number(2000), Number(8000)),
     Tp(TsBad, TsNull, Number(2000), Number(8000)),
     Tp(Naive(6), Aware(7, 1), Number(2000), Number(8000)),
     Tp(Naive(4), Naive(7), CapNull, Number(8000)),
     Tp(Naive(4), Naive(7), Number(2000), CapText)}

List(v) == [t |-> "list", v |-> v]

NotList == [t |-> "other", v |-> <<>>]

Unit(name, tps) == [t |-> "dict", name |-> name, timePeriods |-> tps]

UnitNotDict == [t |-> "other", name |-> NotStr, timePeriods |-> NotList]

Names ==
    {NotStr, Str(<<"g", "u", "_", "1">>), Str(<<"w", " ", "G", "U", "_", "2", "w">>),
     Str(<<"G", "U", "_">>)}

PeriodLists(S) == {NotList} \cup {List(q) : q \in SeqsUpTo(S, MaxPeriods)}

\* Generation units of a run's messages.
RunUnits ==
    {UnitNotDict} \cup {Unit(n, tps) : n \in Names, tps \in PeriodLists(RunPeriods)}

\* Generation units the resolver is checked on.
ResolverUnits ==
    {Unit(Str(<<"g", "u", "_", "1">>), tps) : tps \in PeriodLists(TimePeriods)}

\* Shapes of a message: not an object, an object whose generationUnits is
\* absent or no list, an object with n generation units.
Messages ==
    {[t |-> "other", gus |-> "none", n |-> 0],
     [t |-> "dict", gus |-> "missing", n |-> 0],
     [t |-> "dict", gus |-> "other", n |-> 0]}
    \cup {[t |-> "dict", gus |-> "list", n |-> k] : k \in 0..MaxUnits}

\* What the GET can come to: a transport error, a non-success status, a body
\* that is no JSON, a JSON body that is no object, or an object whose items
\* field is absent, a value of length n that is no list, or a list of n items.
Responses ==
    {[outcome |-> o, items |-> "none", n |-> 0] :
        o \in {"RequestException", "HTTPError", "JSONDecodeError", "not_object"}}
    \cup {[outcome |-> "ok", items |-> "missing", n |-> 0]}
    \cup {[outcome |-> "ok", items |-> k, n |-> n] :
             k \in {"other", "list"}, n \in 0..MaxItems}

NoUnit == UnitNotDict

PreviousSnapshot == [t |-> "previous", generated_at_utc |-> 0, features |-> <<>>]

----------------------------------------------------------------------------
(* main().                                                                 *)

\* What every run starts from, whatever its inputs.
Fresh ==
    /\ error = "none"
    /\ generators = <<>>
    /\ payload_items = [t |-> "unfetched", n |-> 0]
    /\ items_left = 0
    /\ gus_left = 0
    /\ good_items = 0
    /\ state = <<>>
    /\ resolved = <<>>
    /\ features = <<>>
    /\ out_file = PreviousSnapshot
    /\ write_opens = 0
    /\ fetch_attempts = 0
    /\ period = NoPeriod

Init ==
    /\ pc = "start"
    /\ docs_dir \in BOOLEAN
    /\ now = 0
    /\ csv = MissingFile
    /\ gu_obj = NoUnit
    /\ Fresh

resolverVars == <<csv, gu_obj, period>>

loopVars == <<payload_items, items_left, gus_left, good_items, now, state, resolved>>

outVars == <<features, out_file, write_opens>>

\* An exception leaves main(): the run is over.
Abort(e) == pc' = "aborted" /\ error' = e

\* os.makedirs("docs", exist_ok=True): it may fail when docs/ is not there.
MakeDirs ==
    /\ pc = "start"
    /\ \/ docs_dir' = TRUE /\ pc' = "load" /\ error' = error
       \/ ~docs_dir /\ docs_dir' = docs_dir /\ Abort("OSError")
    /\ UNCHANGED <<generators, loopVars, outVars, fetch_attempts, resolverVars>>

\* generators = load_generators(GENERATORS_CSV), on the registry file `file`.
LoadFrom(file) ==
    LET r == load_generators(file)
    IN  /\ pc = "load"
        /\ IF r.raised
           THEN /\ Abort(IF file.exists THEN "ValueError" ELSE "FileNotFoundError")
                /\ generators' = generators
           ELSE /\ pc' = "fetch"
                /\ error' = error
                /\ generators' = r.gens
        /\ UNCHANGED <<docs_dir, loopVars, outVars, fetch_attempts, resolverVars>>

LoadGenerators == \E file \in CsvFiles : LoadFrom(file)

\* items = payload.get("items", []); if not isinstance(items, list): items = []
\* The number of items the loop will go through.
Items(resp) == IF resp.items = "list" THEN resp.n ELSE 0

\* payload = fetch_messages(), one GET; items; now = datetime.now(timezone.utc);
\* state = {}.
FetchMessages ==
    /\ pc = "fetch"
    /\ fetch_attempts' = fetch_attempts + 1
    /\ \E resp \in Responses :
          IF resp.outcome = "ok"
          THEN /\ pc' = "items"
               /\ error' = error
               /\ payload_items' = [t |-> resp.items, n |-> resp.n]
               /\ items_left' = Items(resp)
               /\ now' \in Nows
               /\ state' = <<>>
               /\ resolved' = [gu \in Keys(generators) |-> {}]
               /\ UNCHANGED <<gus_left, good_items>>
          ELSE /\ Abort(IF resp.outcome = "not_object" THEN "AttributeError"
                        ELSE resp.outcome)
               /\ UNCHANGED loopVars
    /\ UNCHANGED <<docs_dir, generators, outVars, resolverVars>>

\* A plausible slip: generationUnits is iterated without the type tests, so
\* that a message of another shape raises.
NextMessageUnchecked ==
    /\ pc = "items"
    /\ items_left > 0
    /\ items_left' = items_left - 1
    /\ \E msg \in Messages :
          IF msg.t = "dict" /\ msg.gus = "list"
          THEN /\ pc' = "units" /\ gus_left' = msg.n /\ good_items' = good_items + 1
               /\ error' = error
          ELSE Abort("TypeError") /\ gus_left' = gus_left /\ good_items' = good_items
    /\ UNCHANGED <<docs_dir, generators, payload_items, now, state, resolved,
                   outVars, fetch_attempts, resolverVars>>

\* for msg in items: a message that is no dict, or whose generationUnits is
\* no list, is passed over.
NextMessage ==
    /\ pc = "items"
    /\ items_left > 0
    /\ items_left' = items_left - 1
    /\ \E msg \in Messages :
          IF msg.t = "dict" /\ msg.gus = "list"
          THEN pc' = "units" /\ gus_left' = msg.n /\ good_items' = good_items + 1
          ELSE pc' = "items" /\ gus_left' = gus_left /\ good_items' = good_items
    /\ UNCHANGED <<error, docs_dir, generators, payload_items, now, state, resolved,
                   outVars, fetch_attempts, resolverVars>>

\* A plausible slip: the later pair replaces the stored one on a tie as well.
MergeOnTie(st, gu, avail, unavail) ==
    IF gu \notin DOMAIN st \/ unavail >= st[gu].unavail
    THEN (gu :> [avail |-> avail, unavail |-> unavail]) @@ st
    ELSE st

\* A plausible slip: only the unavailable component is replaced.
MergeMixed(st, gu, avail, unavail) ==
    IF gu \notin DOMAIN st
    THEN (gu :> [avail |-> avail, unavail |-> unavail]) @@ st
    ELSE IF unavail > st[gu].unavail
         THEN (gu :> [avail |-> st[gu].avail, unavail |-> unavail]) @@ st
         ELSE st

\* prev = state.get(gu); if prev is None or unavail > prev[1]: state[gu] = ...
Merge(st, gu, avail, unavail) ==
    IF gu \notin DOMAIN st \/ unavail > st[gu].unavail
    THEN (gu :> [avail |-> avail, unavail |-> unavail]) @@ st
    ELSE st

\* The code of the unit u when it is a dict with a name that yields a code
\* of the registry; None when the loop body passes u over before resolving.
MatchedCode(u, gens) ==
    LET gu == IF u.t = "dict" THEN extract_gu(u.name) ELSE None
    IN  IF gu.t = "str" /\ gu.s \in Keys(gens) THEN gu ELSE None

\* One pass of `for gu_obj in gus` on the generation unit u.
ProcessUnitOn(u) ==
    LET gu == MatchedCode(u, generators)
        p == parse_time_period_for_now(u, now)
    IN  /\ gus_left' = gus_left - 1
        /\ IF gu.t = "none" \/ p.kind = "none"
           THEN pc' = pc /\ error' = error /\ state' = state /\ resolved' = resolved
           ELSE IF p.kind = "raise"
           THEN Abort("ValueError") /\ state' = state /\ resolved' = resolved
           ELSE /\ pc' = pc
                /\ error' = error
                /\ state' = Merge(state, gu.s, p.avail, p.unavail)
                /\ resolved' = [resolved EXCEPT ![gu.s] =
                                   @ \cup {[avail |-> p.avail, unavail |-> p.unavail]}]

ProcessUnit ==
    /\ pc = "units"
    /\ gus_left > 0
    /\ \E u \in RunUnits : ProcessUnitOn(u)
    /\ UNCHANGED <<docs_dir, generators, payload_items, items_left, good_items, now,
                   outVars, fetch_attempts, resolverVars>>

\* The inner loop is through: on to the next message.
EndMessage ==
    /\ pc = "units"
    /\ gus_left = 0
    /\ pc' = "items"
    /\ UNCHANGED <<error, docs_dir, generators, loopVars, outVars, fetch_attempts,
                   resolverVars>>

\* A plausible slip: a generator without state is shown as offline.
FeatureAbsentOffline(gen, st) ==
    LET known == gen.gu_code \in DOMAIN st
        avail == IF known THEN st[gen.gu_code].avail ELSE 0
        unavail == IF known THEN st[gen.gu_code].unavail ELSE 0
    IN  [infrastructure |-> gen.infrastructure,
         fuel |-> gen.fuel,
         coordinates |-> <<gen.lon, gen.lat>>,
         available_mw |-> Round1(avail),
         unavailable_mw |-> Round1(unavail),
         status |-> IF known THEN status_from_availability(avail, unavail)
                    ELSE "offline"]

\* The feature appended for one registry entry.
Feature(gen, st) ==
    LET known == gen.gu_code \in DOMAIN st
        avail == IF known THEN st[gen.gu_code].avail ELSE 0
        unavail == IF known THEN st[gen.gu_code].unavail ELSE 0
    IN  [infrastructure |-> gen.infrastructure,
         fuel |-> gen.fuel,
         coordinates |-> <<gen.lon, gen.lat>>,
         available_mw |-> Round1(avail),
         unavailable_mw |-> Round1(unavail),
         status |-> IF known THEN status_from_availability(avail, unavail)
                    ELSE "online"]

\* A plausible slip: a generator without state gets no feature.
FeatureListMatchedOnly(gens, st) ==
    LET keep == SelectSeq(gens, LAMBDA g : g.gu_code \in DOMAIN st)
    IN  [i \in 1..Len(keep) |-> Feature(keep[i], st)]

\* for gu, gen in generators.items(): features.append(...)
FeatureList(gens, st) == [i \in 1..Len(gens) |-> Feature(gens[i], st)]

\* The outer loop is through: the features are built.
BuildFeatures ==
    /\ pc = "items"
    /\ items_left = 0
    /\ features' = FeatureList(generators, state)
    /\ pc' = "write"
    /\ UNCHANGED <<error, docs_dir, generators, loopVars, out_file, write_opens,
                   fetch_attempts, resolverVars>>

\* A plausible slip: the output file is opened, and so emptied, before the
\* messages are fetched.
WriteSnapshotEarly ==
    /\ \/ /\ pc = "fetch"
          /\ write_opens = 0
          /\ out_file' = [t |-> "snapshot", generated_at_utc |-> 0, features |-> <<>>]
          /\ pc' = pc
       \/ /\ pc = "write"
          /\ out_file' = [t |-> "snapshot", generated_at_utc |-> now,
                          features |-> features]
          /\ pc' = "done"
    /\ write_opens' = write_opens + 1
    /\ UNCHANGED <<error, docs_dir, generators, loopVars, features, fetch_attempts,
                   resolverVars>>

\* with open(OUT_GEOJSON, "w") as f: json.dump(geojson, f, indent=2)
WriteSnapshot ==
    /\ pc = "write"
    /\ write_opens' = write_opens + 1
    /\ out_file' = [t |-> "snapshot", generated_at_utc |-> now, features |-> features]
    /\ pc' = "done"
    /\ UNCHANGED <<error, docs_dir, generators, loopVars, features, fetch_attempts,
                   resolverVars>>

Next ==
    \/ MakeDirs
    \/ LoadGenerators
    \/ FetchMessages
    \/ NextMessage
    \/ ProcessUnit
    \/ EndMessage
    \/ BuildFeatures
    \/ WriteSnapshot

Spec == Init /\ [][Next]_vars

----------------------------------------------------------------------------
(* load_generators on its own, on a registry file drawn at the start.      *)

InitLoad ==
    /\ pc = "load"
    /\ docs_dir = TRUE
    /\ now = 0
    /\ csv \in CsvFiles
    /\ gu_obj = NoUnit
    /\ Fresh

LoadCsv == LoadFrom(csv)

SpecLoad == InitLoad /\ [][LoadCsv]_vars

----------------------------------------------------------------------------
(* parse_time_period_for_now on its own, on a generation unit and an       *)
(* instant drawn at the start.                                             *)

InitResolve ==
    /\ pc = "resolve"
    /\ docs_dir = TRUE
    /\ now \in Nows
    /\ csv = MissingFile
    /\ gu_obj \in ResolverUnits
    /\ Fresh

ResolveUnit ==
    /\ pc = "resolve"
    /\ period' = parse_time_period_for_now(gu_obj, now)
    /\ pc' = "resolved"
    /\ UNCHANGED <<error, docs_dir, generators, loopVars, outVars, fetch_attempts,
                   csv, gu_obj>>

SpecResolve == InitResolve /\ [][ResolveUnit]_vars

----------------------------------------------------------------------------
(* Properties of a run.                                                    *)

AfterLoop == pc \in {"write", "done"}

IsDefault(f) == f.available_mw = 0 /\ f.unavailable_mw = 0 /\ f.status = "online"

\* C1: when the run completes, the feature list holds exactly one feature per
\* registry entry, in registry order, the registry holding each code once;
\* the written file holds that list, however many units were resolved.
C1_OneFeaturePerEntry ==
    AfterLoop =>
        /\ Len(features) = Len(generators)
        /\ Cardinality(Keys(generators)) = Len(generators)
        /\ \A i \in 1..Len(generators) :
              /\ features[i].infrastructure = generators[i].infrastructure
              /\ features[i].fuel = generators[i].fuel
              /\ features[i].coordinates = <<generators[i].lon, generators[i].lat>>
        /\ (pc = "done" => out_file.features = features)

C1_Witness ==
    /\ pc = "done"
    /\ Len(out_file.features) = 2
    /\ Cardinality(DOMAIN state) = 1
    /\ good_items = MaxItems

\* C3: after all messages are processed, every code with a resolved period
\* has a stored pair that is one of the pairs resolved for it, whole, and whose
\* unavailable is the largest unavailable resolved for it.
C3_MergeConservative ==
    AfterLoop =>
        \A gu \in DOMAIN resolved :
            resolved[gu] # {} =>
                /\ gu \in DOMAIN state
                /\ state[gu] \in resolved[gu]
                /\ \A p \in resolved[gu] : p.unavail <= state[gu].unavail

C3_Witness ==
    /\ pc = "done"
    /\ \E gu \in DOMAIN state :
          \E p \in resolved[gu] :
              /\ p.unavail < state[gu].unavail
              /\ p.avail # state[gu].avail

\* C5: the status of a generator with a recorded state (available, unavailable)
\* is online when unavailable = 0, else offline when available = 0, else
\* partial: always one of the three.
C5_StatusDerivation ==
    AfterLoop =>
        \A i \in 1..Len(generators) :
            generators[i].gu_code \in DOMAIN state =>
                LET a == state[generators[i].gu_code].avail
                    u == state[generators[i].gu_code].unavail
                    st == features[i].status
                IN  /\ st \in {"online", "offline", "partial"}
                    /\ (u = 0 => st = "online")
                    /\ (u # 0 /\ a = 0 => st = "offline")
                    /\ (u # 0 /\ a # 0 => st = "partial")

C5_Witness ==
    /\ pc = "done"
    /\ \E i \in 1..Len(generators) :
          /\ generators[i].gu_code \in DOMAIN state
          /\ state[generators[i].gu_code] = [avail |-> 0, unavail |-> 0]
          /\ features[i].status = "online"

\* While no item reached had a list-valued generationUnits: the loop of a
\* payload whose items is absent or no list has nothing to go through, the
\* run has not aborted, the state is empty and every feature built is the
\* absence default.
C6_Tolerated ==
    /\ payload_items.t \in {"missing", "other"} => items_left = 0
    /\ (payload_items.t \in {"missing", "other", "list"} /\ good_items = 0) =>
          /\ pc # "aborted"
          /\ state = <<>>
          /\ AfterLoop => \A i \in 1..Len(features) : IsDefault(features[i])

\* Passing over an item that is no object, or has no list-valued
\* generationUnits, changes neither the state nor the course of the run.
C6_PassedOver ==
    (pc = "items" /\ items_left' < items_left /\ good_items' = good_items) =>
        /\ pc' = "items"
        /\ error' = "none"
        /\ state' = state
        /\ resolved' = resolved

\* C6: a payload (a JSON object) of malformed shape does not end the run:
\* items absent or no list is an empty message set, an item of another shape
\* is passed over, and the generators concerned get the absence default.
C6_MalformedPayload == []C6_Tolerated /\ [][C6_PassedOver]_vars

C6_Witness ==
    /\ pc = "done"
    /\ payload_items = [t |-> "list", n |-> MaxItems]
    /\ good_items = 0
    /\ Len(out_file.features) = 2

\* C7: a run that ended with an exception never opened the output file, which
\* holds what it held before the run; and the GET is issued at most once.
C7_AbortBeforeWrite ==
    /\ pc = "aborted" => write_opens = 0 /\ out_file = PreviousSnapshot
    /\ fetch_attempts <= 1

C7_Witness ==
    /\ pc = "aborted"
    /\ error = "HTTPError"
    /\ fetch_attempts = 1
    /\ Len(generators) > 0

\* C8: a registry entry for whose code no period was resolved has no recorded
\* state and is emitted with 0.0 MW available, 0.0 MW unavailable and online.
C8_AbsenceDefault ==
    AfterLoop =>
        \A i \in 1..Len(generators) :
            /\ resolved[generators[i].gu_code] = {} <=>
                  generators[i].gu_code \notin DOMAIN state
            /\ generators[i].gu_code \notin DOMAIN state => IsDefault(features[i])

C8_Witness ==
    /\ pc = "done"
    /\ good_items > 0
    /\ \E i, j \in 1..Len(generators) :
          /\ generators[i].gu_code \notin DOMAIN state
          /\ IsDefault(features[i])
          /\ generators[j].gu_code \in DOMAIN state
          /\ state[generators[j].gu_code].unavail > 0

C10_Step ==
    /\ DOMAIN state' \subseteq Keys(generators')
    /\ \A gu \in DOMAIN state :
          /\ gu \in DOMAIN state'
          /\ state'[gu] # state[gu] => state'[gu].unavail > state[gu].unavail

\* C10: at every step the keys of the state are codes of the registry, no
\* entry is removed, and an entry changes only to a pair with a strictly
\* greater unavailable (so a tie keeps the earlier pair).
C10_MonotoneState == [][C10_Step]_vars

C10_Witness ==
    \E gu \in DOMAIN state :
        \E p \in resolved[gu] : p # state[gu] /\ p.unavail = state[gu].unavail

----------------------------------------------------------------------------
(* Properties of load_generators.                                          *)

\* What the loader extracts from a row: the code of its trimmed infrastructure.
RowCode(row) == extract_gu(Str(Strip(OrEmpty(row.infrastructure))))

CodedRows == {i \in 1..Len(csv.rows) : RowCode(csv.rows[i]).t = "str"}

LastRowOf(gu) == MaxOf({i \in CodedRows : RowCode(csv.rows[i]).s = gu})

\* C9: the mapping load_generators returns holds exactly the codes extracted
\* from the rows, each once, and under each code the record of the last row
\* that yields it; a row with empty infrastructure or without a code is passed
\* over without error: the loader raises only on a missing file or on a row
\* with a code whose lat or lon is no number.
C9_LastRowWins ==
    /\ pc = "fetch" =>
          /\ Keys(generators) = {RowCode(csv.rows[i]).s : i \in CodedRows}
          /\ Cardinality(Keys(generators)) = Len(generators)
          /\ \A j \in 1..Len(generators) :
                LET row == csv.rows[LastRowOf(generators[j].gu_code)]
                IN  /\ generators[j].infrastructure = Strip(OrEmpty(row.infrastructure))
                    /\ generators[j].lat = ParseFloat(row.lat).v
                    /\ generators[j].lon = ParseFloat(row.lon).v
                    /\ generators[j].fuel = Strip(OrEmpty(row.fuel))
    /\ pc = "aborted" =>
          \/ ~csv.exists
          \/ \E i \in CodedRows :
                ~ParseFloat(csv.rows[i].lat).ok \/ ~ParseFloat(csv.rows[i].lon).ok

C9_Witness ==
    /\ pc = "fetch"
    /\ Len(csv.rows) = 2
    /\ Len(generators) = 1
    /\ RowCode(csv.rows[1]) = RowCode(csv.rows[2])
    /\ csv.rows[1].lat # csv.rows[2].lat
    /\ generators[1].lat = ParseFloat(csv.rows[2].lat).v

----------------------------------------------------------------------------
(* Properties of parse_time_period_for_now.                                *)

\* An endpoint that is present and parses.
ValidEndpoint(ts) == ts.t = "iso"

Instant(ts) == IF ts.aware THEN ts.local - ts.offset ELSE ts.local

InvalidPeriod(tp) ==
    tp.t = "dict" /\ (~ValidEndpoint(tp.eventStart) \/ ~ValidEndpoint(tp.eventStop))

Qualifies(tp, t) ==
    /\ tp.t = "dict"
    /\ ValidEndpoint(tp.eventStart)
    /\ ValidEndpoint(tp.eventStop)
    /\ Instant(tp.eventStart) <= t
    /\ t <= Instant(tp.eventStop)
    /\ tp.availableCapacity.t = "num"
    /\ tp.unavailableCapacity.t = "num"

\* The pair of the first qualifying period of tps, "no active period" if none.
FirstQualifying(tps, t) ==
    LET q == {i \in 1..Len(tps) : Qualifies(tps[i], t)}
    IN  IF q = {} THEN NoPeriod
        ELSE Pair(tps[MinOf(q)].availableCapacity.v, tps[MinOf(q)].unavailableCapacity.v)

PeriodsOf(gu) == IF gu.timePeriods.t = "list" THEN gu.timePeriods.v ELSE <<>>

\* C2: a period whose eventStart or eventStop is missing or unparsable is
\* ignored: the resolver does not raise on a unit that holds one, and returns
\* what the unit's other periods give.
C2_InvalidPeriodIgnored ==
    (pc = "resolved" /\ \E i \in 1..Len(PeriodsOf(gu_obj)) :
                            InvalidPeriod(PeriodsOf(gu_obj)[i])) =>
        /\ period.kind # "raise"
        /\ period = FirstQualifying(
                        SelectSeq(PeriodsOf(gu_obj), LAMBDA tp : ~InvalidPeriod(tp)), now)

\* C4: the resolver returns the pair of the first period in source order with
\* both endpoints valid, start <= now <= stop and both capacities numeric, and
\* "no active period" (not a (0, 0) pair) if there is none.
C4_FirstActivePeriod ==
    pc = "resolved" => period = FirstQualifying(PeriodsOf(gu_obj), now)

====
